---- MODULE Spec2Model ----
(***************************************************************************)
(* Model of the Voice Topic Tree session engine of voice_app.py: the       *)
(* Streamlit session state (tree_nodes, current_parent,                    *)
(* conversation_history, node_counter, current_topic_label), the           *)
(* process_recording handler with its helpers, and the Reset All handler.  *)
(*                                                                         *)
(* Strings of speech are sequences of one-character strings, so that       *)
(* strip(), concatenation and " ".join() are computed as Python computes   *)
(* them.  Python values of mixed type (a JSON value that may be a bool, a  *)
(* string or null; an id that may be None) are encoded by the tokens       *)
(* defined below.                                                          *)
(***************************************************************************)
EXTENDS Integers, Sequences, FiniteSets, TLC

\* ---- bound of the model ------------------------------------------------
\* Non-empty recordings submitted between two resets.
MaxLog == 3
\* The same, in the sessions in which every classifier call fails.
MaxFailLog == 4
\* The same, in the sessions that fill the classifier's context window.
MaxWindowLog == 5

\* ---- encoding of Python values -------------------------------------------
\* None where an int (a node id) is expected.
NoneId == -1
\* None where a str label is expected (current_topic_label, a null label).
NoneLabel == "<None>"
\* None returned by transcribe_audio; no transcript contains this token.
NoneTranscript == <<"<None>">>
\* The Python values a JSON field of the classifier reply can decode to.
PyTrue == "True"
PyFalse == "False"
\* A non-boolean, non-empty string value (truthy in Python).
PyStrNo == "'no'"
\* A key that is missing from the decoded dict.
Absent == "<absent>"

\* ---- inputs ---------------------------------------------------------------
\* What the Whisper call hands back: a text, or an exception.
WhisperError == <<"<error>">>
Transcripts == { <<>>, <<" ">>, <<"a">>, <<"b", " ">> }
WhisperOutcomes == Transcripts \cup {WhisperError}

\* audio_data passed to process_recording: None or a recording.
AudioNone == "None"
AudioWav == "wav"
AudioData == {AudioNone, AudioWav}

\* What the chat completion hands back: an exception (API error or a body
\* that json.loads rejects), or a decoded JSON object.  Of the objects, every
\* label is paired with topic_changed true, which is the only value under
\* which process_recording reads the label beyond its presence; a false,
\* missing or non-boolean topic_changed comes with one label, and false also
\* without one.
TopicChangedValues == {Absent, PyTrue, PyFalse, PyStrNo}
TopicLabelValues == {Absent, "A", "B", NoneLabel}
ClassifierOutcomes ==
    { [failed |-> TRUE, topic_changed |-> Absent, topic_label |-> Absent] }
    \cup { r \in [failed : {FALSE}, topic_changed : TopicChangedValues,
                   topic_label : TopicLabelValues] :
              \/ r.topic_changed = PyTrue
              \/ r.topic_changed = PyFalse /\ r.topic_label \in {"A", Absent}
              \/ r.topic_changed \in {Absent, PyStrNo} /\ r.topic_label = "A" }

\* ---- Python primitives ----------------------------------------------------
IsSpace(c) == c \in {" ", "\t", "\n"}

RECURSIVE lstrip(_)
lstrip(s) ==
    IF s = <<>> THEN <<>>
    ELSE IF IsSpace(Head(s)) THEN lstrip(Tail(s)) ELSE s

RECURSIVE rstrip(_)
rstrip(s) ==
    IF s = <<>> THEN <<>>
    ELSE IF IsSpace(s[Len(s)]) THEN rstrip(SubSeq(s, 1, Len(s) - 1)) ELSE s

\* str.strip()
strip(s) == rstrip(lstrip(s))

\* " ".join(parts)
RECURSIVE join(_)
join(parts) ==
    IF parts = <<>> THEN <<>>
    ELSE IF Len(parts) = 1 THEN parts[1]
    ELSE parts[1] \o <<" ">> \o join(Tail(parts))

\* seq[-n:]
LastN(seq, n) ==
    IF Len(seq) <= n THEN seq ELSE SubSeq(seq, Len(seq) - n + 1, Len(seq))

\* bool(v) of a decoded JSON value
Truthy(v) == v \in {PyTrue, PyStrNo}

\* ---- session state ----------------------------------------------------------
VARIABLES
    tree_nodes,            \* st.session_state.tree_nodes
    current_parent,        \* st.session_state.current_parent
    conversation_history,  \* st.session_state.conversation_history
    node_counter,          \* st.session_state.node_counter
    current_topic_label,   \* st.session_state.current_topic_label
    last,                  \* observation: the handler that ran last, its inputs
    accepted,              \* observation: non-empty transcripts since reset
    retired,               \* observation: node ids assigned before a reset
    first_run              \* observation: what the first non-empty transcript
                           \* since reset did: "none" yet, "node", "no_node"

vars == <<tree_nodes, current_parent, conversation_history, node_counter,
          current_topic_label, last, accepted, retired, first_run>>

\* The session state as one value, threaded through the helpers.
SessionState ==
    [tree_nodes |-> tree_nodes,
     current_parent |-> current_parent,
     conversation_history |-> conversation_history,
     node_counter |-> node_counter,
     current_topic_label |-> current_topic_label]

EmptySession ==
    [tree_nodes |-> <<>>,
     current_parent |-> NoneId,
     conversation_history |-> <<>>,
     node_counter |-> 0,
     current_topic_label |-> NoneLabel]

\* ---- helpers of the handler ---------------------------------------------
transcribe_audio(whisper) ==
    IF whisper = WhisperError THEN NoneTranscript ELSE whisper

\* Variant: the first three entries instead of the last three.
recent_context_first3(history) ==
    IF history # <<>>
    THEN join(SubSeq(history, 1, IF Len(history) < 3 THEN Len(history) ELSE 3))
    ELSE <<>>

recent_context(history) ==
    IF history # <<>> THEN join(LastN(history, 3)) ELSE <<>>

\* What detect_topic_change puts into the prompt of the chat completion.
classifier_prompt(new_text, history, current_topic) ==
    [context |-> recent_context(history),
     current_topic |-> current_topic,
     new_text |-> new_text]

\* The prompt of a run that does not reach the classifier.
NoPrompt == [context |-> <<>>, current_topic |-> NoneLabel, new_text |-> <<>>]

\* Variant: the except branch always opens a topic.
detect_topic_change_always_new(new_text, history, current_topic, reply) ==
    IF reply.failed
    THEN [topic_changed |-> PyTrue, topic_label |-> "New Topic"]
    ELSE [topic_changed |-> reply.topic_changed,
          topic_label |-> reply.topic_label]

detect_topic_change(new_text, history, current_topic, reply) ==
    IF reply.failed
    THEN [topic_changed |-> IF Len(history) = 0 THEN PyTrue ELSE PyFalse,
          topic_label |-> "New Topic"]
    ELSE [topic_changed |-> reply.topic_changed,
          topic_label |-> reply.topic_label]

\* Variant: the counter is not advanced.
add_node_no_increment(s, topic_label, full_text, parent_id) ==
    [s EXCEPT
        !.tree_nodes = Append(@, [id |-> s.node_counter,
                                  label |-> topic_label,
                                  text |-> full_text,
                                  parent_id |-> parent_id,
                                  children |-> <<>>])]

\* Variant: the parent argument is dropped, every node is a root.
add_node_default_parent(s, topic_label, full_text, parent_id) ==
    [s EXCEPT
        !.tree_nodes = Append(@, [id |-> s.node_counter,
                                  label |-> topic_label,
                                  text |-> full_text,
                                  parent_id |-> NoneId,
                                  children |-> <<>>]),
        !.node_counter = @ + 1]

add_node(s, topic_label, full_text, parent_id) ==
    [s EXCEPT
        !.tree_nodes = Append(@, [id |-> s.node_counter,
                                  label |-> topic_label,
                                  text |-> full_text,
                                  parent_id |-> parent_id,
                                  children |-> <<>>]),
        !.node_counter = @ + 1]

\* Index of the first node whose id is nid, 0 when there is none.
FirstWithId(nodes, nid) ==
    IF \E i \in 1..Len(nodes) : nodes[i].id = nid
    THEN CHOOSE i \in 1..Len(nodes) :
            /\ nodes[i].id = nid
            /\ \A j \in 1..(i - 1) : nodes[j].id # nid
    ELSE 0

\* Variant: the text is assigned instead of extended.
update_current_node_overwrite(s, additional_text) ==
    IF s.tree_nodes # <<>> /\ s.current_parent # NoneId
       /\ FirstWithId(s.tree_nodes, s.current_parent) # 0
    THEN [s EXCEPT !.tree_nodes[FirstWithId(s.tree_nodes, s.current_parent)].text
                        = additional_text]
    ELSE s

\* Variant: the separating space is left out.
update_current_node_no_space(s, additional_text) ==
    IF s.tree_nodes # <<>> /\ s.current_parent # NoneId
       /\ FirstWithId(s.tree_nodes, s.current_parent) # 0
    THEN [s EXCEPT !.tree_nodes[FirstWithId(s.tree_nodes, s.current_parent)].text
                        = @ \o additional_text]
    ELSE s

update_current_node(s, additional_text) ==
    IF s.tree_nodes # <<>> /\ s.current_parent # NoneId
       /\ FirstWithId(s.tree_nodes, s.current_parent) # 0
    THEN [s EXCEPT !.tree_nodes[FirstWithId(s.tree_nodes, s.current_parent)].text
                        = @ \o <<" ">> \o additional_text]
    ELSE s

\* Variant: the guard is only "if transcript:".
IsAccepted_no_strip(transcript) ==
    /\ transcript # NoneTranscript
    /\ transcript # <<>>

\* The guard of line 158: transcript and len(transcript.strip()) > 0
IsAccepted(transcript) ==
    /\ transcript # NoneTranscript
    /\ transcript # <<>>
    /\ Len(strip(transcript)) > 0

\* Variant: the label is read with .get() for add_node and with [] only at
\* the label assignment, so a missing label raises after the node is added.
process_recording_late_lookup(s, audio_data, whisper, reply) ==
    LET transcript == transcribe_audio(whisper)
        topic_info == detect_topic_change(transcript, s.conversation_history,
                                          s.current_topic_label, reply)
        prompt == classifier_prompt(transcript, s.conversation_history,
                                    s.current_topic_label)
        logged(t) == [t EXCEPT !.conversation_history = Append(@, transcript)]
    IN  IF audio_data = AudioNone
        THEN [st |-> s, outcome |-> "no_audio", prompt |-> NoPrompt]
        ELSE IF ~IsAccepted(transcript)
        THEN [st |-> s, outcome |-> "rejected", prompt |-> NoPrompt]
        ELSE IF topic_info.topic_changed = Absent
        THEN [st |-> s, outcome |-> "KeyError", prompt |-> prompt]
        ELSE IF Truthy(topic_info.topic_changed)
        THEN LET s1 == add_node(s, IF topic_info.topic_label = Absent
                                   THEN NoneLabel
                                   ELSE topic_info.topic_label,
                                transcript, s.current_parent)
                 node_id == s.node_counter
                 s2 == [s1 EXCEPT !.current_parent = node_id]
                 s3 == [s2 EXCEPT
                           !.current_topic_label = topic_info.topic_label]
             IN  IF topic_info.topic_label = Absent
                 THEN [st |-> s2, outcome |-> "KeyError", prompt |-> prompt]
                 ELSE [st |-> logged(s3), outcome |-> "new_topic",
                       prompt |-> prompt]
        ELSE [st |-> logged(update_current_node(s, transcript)),
              outcome |-> "appended", prompt |-> prompt]

\* Variant: the history append is indented into the new-topic branch.
process_recording_log_in_branch(s, audio_data, whisper, reply) ==
    LET transcript == transcribe_audio(whisper)
        topic_info == detect_topic_change(transcript, s.conversation_history,
                                          s.current_topic_label, reply)
        prompt == classifier_prompt(transcript, s.conversation_history,
                                    s.current_topic_label)
        logged(t) == [t EXCEPT !.conversation_history = Append(@, transcript)]
    IN  IF audio_data = AudioNone
        THEN [st |-> s, outcome |-> "no_audio", prompt |-> NoPrompt]
        ELSE IF ~IsAccepted(transcript)
        THEN [st |-> s, outcome |-> "rejected", prompt |-> NoPrompt]
        ELSE IF topic_info.topic_changed = Absent
        THEN [st |-> s, outcome |-> "KeyError", prompt |-> prompt]
        ELSE IF Truthy(topic_info.topic_changed)
        THEN IF topic_info.topic_label = Absent
             THEN [st |-> s, outcome |-> "KeyError", prompt |-> prompt]
             ELSE LET s1 == add_node(s, topic_info.topic_label, transcript,
                                     s.current_parent)
                      node_id == s.node_counter
                      s2 == [s1 EXCEPT
                                !.current_parent = node_id,
                                !.current_topic_label = topic_info.topic_label]
                  IN  [st |-> logged(s2), outcome |-> "new_topic",
                       prompt |-> prompt]
        ELSE [st |-> update_current_node(s, transcript),
              outcome |-> "appended", prompt |-> prompt]

\* process_recording: the session state it leaves and how it ended.
process_recording(s, audio_data, whisper, reply) ==
    LET transcript == transcribe_audio(whisper)
        topic_info == detect_topic_change(transcript, s.conversation_history,
                                          s.current_topic_label, reply)
        prompt == classifier_prompt(transcript, s.conversation_history,
                                    s.current_topic_label)
        logged(t) == [t EXCEPT !.conversation_history = Append(@, transcript)]
    IN  IF audio_data = AudioNone
        THEN [st |-> s, outcome |-> "no_audio", prompt |-> NoPrompt]
        ELSE IF ~IsAccepted(transcript)
        THEN [st |-> s, outcome |-> "rejected", prompt |-> NoPrompt]
        ELSE IF topic_info.topic_changed = Absent
        THEN [st |-> s, outcome |-> "KeyError", prompt |-> prompt]
        ELSE IF Truthy(topic_info.topic_changed)
        THEN IF topic_info.topic_label = Absent
             THEN [st |-> s, outcome |-> "KeyError", prompt |-> prompt]
             ELSE LET s1 == add_node(s, topic_info.topic_label, transcript,
                                     s.current_parent)
                      node_id == s.node_counter
                      s2 == [s1 EXCEPT
                                !.current_parent = node_id,
                                !.current_topic_label = topic_info.topic_label]
                  IN  [st |-> logged(s2), outcome |-> "new_topic",
                       prompt |-> prompt]
        ELSE [st |-> logged(update_current_node(s, transcript)),
              outcome |-> "appended", prompt |-> prompt]

\* Variant: the counter survives the reset.
reset_all_keeps_counter(s) ==
    [s EXCEPT !.tree_nodes = <<>>,
              !.current_parent = NoneId,
              !.conversation_history = <<>>,
              !.current_topic_label = NoneLabel]

\* Variant: the active pointer survives the reset.
reset_all_keeps_parent(s) ==
    [s EXCEPT !.tree_nodes = <<>>,
              !.conversation_history = <<>>,
              !.node_counter = 0,
              !.current_topic_label = NoneLabel]

\* Variant: the current label survives the reset.
reset_all_keeps_label(s) ==
    [s EXCEPT !.tree_nodes = <<>>,
              !.current_parent = NoneId,
              !.conversation_history = <<>>,
              !.node_counter = 0]

\* The Reset All button.
reset_all(s) ==
    [s EXCEPT !.tree_nodes = <<>>,
              !.current_parent = NoneId,
              !.conversation_history = <<>>,
              !.node_counter = 0,
              !.current_topic_label = NoneLabel]

\* ---- the state machine ------------------------------------------------------
NoReply == [failed |-> TRUE, topic_changed |-> Absent, topic_label |-> Absent]

Init ==
    /\ tree_nodes = EmptySession.tree_nodes
    /\ current_parent = EmptySession.current_parent
    /\ conversation_history = EmptySession.conversation_history
    /\ node_counter = EmptySession.node_counter
    /\ current_topic_label = EmptySession.current_topic_label
    /\ last = [op |-> "init", audio_data |-> AudioNone, whisper |-> WhisperError,
               reply |-> NoReply, outcome |-> "none", context |-> <<>>,
               current_topic |-> NoneLabel]
    /\ accepted = <<>>
    /\ retired = {}
    /\ first_run = "none"

SetSession(s) ==
    /\ tree_nodes' = s.tree_nodes
    /\ current_parent' = s.current_parent
    /\ conversation_history' = s.conversation_history
    /\ node_counter' = s.node_counter
    /\ current_topic_label' = s.current_topic_label

\* One run of process_recording with the given collaborator outcomes.
RunHandler(audio_data, whisper, reply) ==
    LET r == process_recording(SessionState, audio_data, whisper, reply)
        ran == audio_data # AudioNone /\ IsAccepted(transcribe_audio(whisper))
    IN  /\ SetSession(r.st)
        /\ last' = [op |-> "ingest", audio_data |-> audio_data,
                    whisper |-> whisper, reply |-> reply,
                    outcome |-> r.outcome,
                    context |-> r.prompt.context,
                    current_topic |-> r.prompt.current_topic]
        /\ accepted' = IF ran THEN Append(accepted, transcribe_audio(whisper))
                       ELSE accepted
        /\ first_run' = IF ran /\ accepted = <<>>
                        THEN (IF Len(r.st.tree_nodes) > Len(tree_nodes)
                              THEN "node" ELSE "no_node")
                        ELSE first_run
        /\ UNCHANGED retired

ProcessRecording(audio_data, whisper, reply) ==
    /\ Len(accepted) < MaxLog
    /\ RunHandler(audio_data, whisper, reply)

ResetAll ==
    /\ SetSession(reset_all(SessionState))
    /\ last' = [op |-> "reset", audio_data |-> AudioNone,
                whisper |-> WhisperError, reply |-> NoReply,
                outcome |-> "none", context |-> <<>>,
                current_topic |-> NoneLabel]
    /\ accepted' = <<>>
    /\ first_run' = "none"
    /\ retired' = retired \cup { tree_nodes[i].id : i \in 1..Len(tree_nodes) }

\* The collaborators' outcomes of one run of the handler.  A call that the
\* handler does not reach has no outcome: with no audio neither API is
\* called, and with a rejected transcript the classifier is not called.
Runs ==
    { <<AudioNone, WhisperError, NoReply>> }
    \cup { <<AudioWav, w, NoReply>> :
              w \in { x \in WhisperOutcomes : ~IsAccepted(transcribe_audio(x)) } }
    \cup { <<AudioWav, w, c>> :
              w \in { x \in WhisperOutcomes : IsAccepted(transcribe_audio(x)) },
              c \in ClassifierOutcomes }

Next ==
    \/ \E run \in Runs : ProcessRecording(run[1], run[2], run[3])
    \/ ResetAll

Spec == Init /\ [][Next]_vars

\* ---- sessions in which every classifier call fails --------------------------
\* The runs in which the chat completion, when it is reached, raises.
FailedRuns == { run \in Runs : run[3].failed }

ProcessRecordingAllFail(audio_data, whisper) ==
    /\ Len(accepted) < MaxFailLog
    /\ RunHandler(audio_data, whisper, NoReply)

NextAllFail ==
    \/ \E run \in FailedRuns : ProcessRecordingAllFail(run[1], run[2])
    \/ ResetAll

SpecAllFail == Init /\ [][NextAllFail]_vars

\* ---- sessions long enough to fill the context window ------------------------
\* Runs on a non-empty transcript whose reply is a failure or well formed.
WindowRuns ==
    { run \in Runs :
        /\ run[1] = AudioWav
        /\ IsAccepted(transcribe_audio(run[2]))
        /\ \/ run[3].failed
           \/ /\ run[3].topic_changed \in {PyTrue, PyFalse}
              /\ run[3].topic_label = "A" }

ProcessRecordingWindow(audio_data, whisper, reply) ==
    /\ Len(accepted) < MaxWindowLog
    /\ RunHandler(audio_data, whisper, reply)

NextWindow ==
    \/ \E run \in WindowRuns : ProcessRecordingWindow(run[1], run[2], run[3])
    \/ ResetAll

SpecWindow == Init /\ [][NextWindow]_vars

\* ---- vocabulary of the properties ----------------------------------------
\* The handler that ran last was process_recording on a non-empty transcript.
Ingested ==
    /\ last.op = "ingest"
    /\ last.audio_data = AudioWav
    /\ IsAccepted(transcribe_audio(last.whisper))

\* The utterance of the handler that ran last.
Utterance == transcribe_audio(last.whisper)

NodeIds == { tree_nodes[i].id : i \in 1..Len(tree_nodes) }

Roots == { i \in 1..Len(tree_nodes) : tree_nodes[i].parent_id = NoneId }

\* The node a new topic creates.
NewNode(id, label, text, parent_id) ==
    [id |-> id, label |-> label, text |-> text, parent_id |-> parent_id,
     children |-> <<>>]

\* A decoded reply in which topic_changed is missing or not a bool, or
\* topic_label is missing or not a string.
Malformed(reply) ==
    /\ ~reply.failed
    /\ \/ reply.topic_changed \notin {PyTrue, PyFalse}
       \/ reply.topic_label \in {Absent, NoneLabel}

\* ---- C1 ---------------------------------------------------------------------
\* C1: when the Conversation Log is empty and process_recording runs on a
\* non-empty utterance, the state it leaves holds at least one node whose
\* parent_id is None, whatever the classifier returned: topic_changed true
\* or false with any label, or a failed call.
C1_FirstUtteranceOpensTopic ==
    [][ (Ingested' /\ conversation_history = <<>> /\ ~Malformed(last'.reply))
            => \E i \in 1..Len(tree_nodes') :
                    tree_nodes'[i].parent_id = NoneId ]_vars

\* ---- C2 ---------------------------------------------------------------------

\* C2: on a malformed classifier record process_recording leaves the state
\* that the failed call (the fallback decision) leaves, log append included.
C2_MalformedIsFallback ==
    [][ (Ingested' /\ Malformed(last'.reply))
            => SessionState' =
                 process_recording(SessionState, AudioWav, last'.whisper,
                                   NoReply).st ]_vars

\* ---- C3 ---------------------------------------------------------------------
\* C3: when the classifier call fails, process_recording leaves the state it
\* leaves for the reply (log is empty, "New Topic"): with an empty log exactly
\* one node, a root labelled "New Topic" whose text is the utterance, is
\* created; with a non-empty log no node is created.
C3_FallbackDecision ==
    [][ (Ingested' /\ last'.reply.failed)
            => /\ SessionState' =
                    process_recording(SessionState, AudioWav, last'.whisper,
                        [failed |-> FALSE,
                         topic_changed |-> IF conversation_history = <<>>
                                           THEN PyTrue ELSE PyFalse,
                         topic_label |-> "New Topic"]).st
               /\ conversation_history = <<>>
                    => tree_nodes' = Append(tree_nodes,
                            NewNode(node_counter, "New Topic", Utterance',
                                    NoneId))
               /\ conversation_history # <<>>
                    => Len(tree_nodes') = Len(tree_nodes) ]_vars

\* A failed classifier call on the empty session has made its root node.
C3_Witness ==
    /\ Ingested
    /\ last.reply.failed
    /\ tree_nodes = << NewNode(0, "New Topic", <<"a">>, NoneId) >>
    /\ conversation_history = << <<"a">> >>

\* ---- C4 ---------------------------------------------------------------------
\* The whole sequence ran: a node was created and made active, or the step
\* was a continuation, and the utterance was logged.
AllApplied ==
    /\ conversation_history' = Append(conversation_history, Utterance')
    /\ \/ /\ Len(tree_nodes') = Len(tree_nodes) + 1
          /\ SubSeq(tree_nodes', 1, Len(tree_nodes)) = tree_nodes
          /\ tree_nodes'[Len(tree_nodes')].text = Utterance'
          /\ node_counter' = node_counter + 1
          /\ current_parent' = tree_nodes'[Len(tree_nodes')].id
          /\ current_topic_label' = tree_nodes'[Len(tree_nodes')].label
       \/ /\ Len(tree_nodes') = Len(tree_nodes)
          /\ node_counter' = node_counter
          /\ current_parent' = current_parent
          /\ current_topic_label' = current_topic_label

NothingApplied == SessionState' = SessionState

\* C4: every run of process_recording, whatever the collaborators did,
\* either applies tree step, pointer/label update and log append together,
\* or leaves nodes, counter, pointer, label and log unchanged.
C4_AllOrNothing ==
    [][ last'.op = "ingest" => (AllApplied \/ NothingApplied) ]_vars

\* A malformed record ended a run on a session that already holds a topic.
C4_Witness ==
    /\ Ingested
    /\ Malformed(last.reply)
    /\ last.outcome = "KeyError"
    /\ tree_nodes # <<>>
    /\ Len(accepted) > Len(conversation_history)

\* ---- C5 ---------------------------------------------------------------------
\* C5: the Conversation Log is the sequence of the non-empty utterances
\* submitted since session start or the last reset, in submission order.
C5_LogCompleteness == conversation_history = accepted

\* ---- C6 ---------------------------------------------------------------------
\* C6: the active pointer is the id of exactly one existing node, or it is
\* None and then the Conversation Log is empty.
C6_OneActiveOrNoneProcessed ==
    IF current_parent = NoneId
    THEN conversation_history = <<>>
    ELSE Cardinality({ i \in 1..Len(tree_nodes) :
                          tree_nodes[i].id = current_parent }) = 1

\* ---- C7 ---------------------------------------------------------------------
\* C7: the id counter equals the number of nodes, the i-th created node has
\* id i (counting from 0), and a run adds a node exactly when it took the
\* topic_changed = true branch, one node per such run.
C7_MonotonicIds ==
    /\ [](/\ node_counter = Len(tree_nodes)
          /\ \A i \in 1..Len(tree_nodes) : tree_nodes[i].id = i - 1)
    /\ [][ last'.op = "ingest"
             => Len(tree_nodes') =
                  Len(tree_nodes)
                  + (IF last'.outcome = "new_topic" THEN 1 ELSE 0) ]_vars

\* Three topics were opened in one session.
C7_Witness ==
    /\ Len(tree_nodes) = 3
    /\ node_counter = 3
    /\ last.outcome = "new_topic"

\* ---- C8 ---------------------------------------------------------------------
\* C8 as stated: an id assigned to a node before a reset is never the id of
\* a node created after that reset.
C8_NoReuseAfterReset == NodeIds \cap retired = {}

\* C8 amended: ids strictly increase in creation order between resets; the
\* Reset All handler puts the counter back to 0, so the first node created in
\* an empty tree has id 0 again.
C8_IdsIncreaseBetweenResets ==
    /\ [](\A i, j \in 1..Len(tree_nodes) :
             i < j => tree_nodes[i].id < tree_nodes[j].id)
    /\ [][ /\ last'.op = "reset" => node_counter' = 0
           /\ (tree_nodes = <<>> /\ tree_nodes' # <<>> /\ last.op = "reset")
                => tree_nodes'[1].id = 0 ]_vars

\* After a reset the tree holds again ids that were in use before it.
C8_Witness ==
    /\ Len(tree_nodes) >= 2
    /\ NodeIds \subseteq retired

\* ---- C9 ---------------------------------------------------------------------
\* C9: every node with a parent references a node of the tree that was
\* created strictly earlier (parent_id < id).
C9_ParentGraphAcyclic ==
    \A i \in 1..Len(tree_nodes) :
        tree_nodes[i].parent_id # NoneId
            => /\ \E j \in 1..(i - 1) :
                     tree_nodes[j].id = tree_nodes[i].parent_id
               /\ tree_nodes[i].parent_id < tree_nodes[i].id

\* A nested node exists in a session that follows a reset of a non-empty one.
C9_Witness ==
    /\ \E i \in 1..Len(tree_nodes) : tree_nodes[i].parent_id # NoneId
    /\ retired # {}

\* ---- C10 --------------------------------------------------------------------
\* The decision process_recording acts on, for the reply of the last run.
Decision(history, reply) ==
    detect_topic_change(<<>>, history, NoneLabel, reply)

\* C10: a run whose decision is (true, label) appends a node whose parent_id
\* is the active pointer before the run and makes it active; hence node 0 is
\* the only root, node i >= 1 has parent i-1, and no node has two children.
C10_NestingChain ==
    /\ [](/\ \A i \in 1..Len(tree_nodes) :
                /\ tree_nodes[i].id = i - 1
                /\ tree_nodes[i].parent_id = (IF i = 1 THEN NoneId ELSE i - 2)
          /\ Cardinality(Roots) <= 1
          /\ \A i, j \in 1..Len(tree_nodes) :
                (i # j /\ tree_nodes[i].parent_id # NoneId)
                    => tree_nodes[i].parent_id # tree_nodes[j].parent_id)
    /\ [][ (/\ Ingested'
            /\ Decision(conversation_history, last'.reply).topic_changed = PyTrue
            /\ Decision(conversation_history, last'.reply).topic_label # Absent)
             => /\ tree_nodes' = Append(tree_nodes,
                      NewNode(node_counter,
                              Decision(conversation_history,
                                       last'.reply).topic_label,
                              Utterance', current_parent))
                /\ current_parent' = node_counter ]_vars

\* Decisions (true, A), (false, _), (true, B) on "a", "b ", "a".
C10_Witness ==
    /\ tree_nodes = << NewNode(0, "A", <<"a", " ", "b", " ">>, NoneId),
                       NewNode(1, "B", <<"a">>, 0) >>
    /\ current_parent = 1
    /\ conversation_history = << <<"a">>, <<"b", " ">>, <<"a">> >>

\* ---- C11 --------------------------------------------------------------------
\* The active pointer names a node of the tree.
Resolves == \E i \in 1..Len(tree_nodes) : tree_nodes[i].id = current_parent

\* C11: a run whose decision is topic_changed = false while the active
\* pointer resolves leaves the number of nodes, the id counter, the active
\* pointer, the current label and every other node as they were, and the
\* active node's text becomes its prior text, one space, the utterance.
C11_ContinuationPreservesCount ==
    [][ (/\ Ingested'
         /\ Decision(conversation_history, last'.reply).topic_changed = PyFalse
         /\ Resolves)
          => /\ Len(tree_nodes') = Len(tree_nodes)
             /\ node_counter' = node_counter
             /\ current_parent' = current_parent
             /\ current_topic_label' = current_topic_label
             /\ \A i \in 1..Len(tree_nodes) :
                   IF tree_nodes[i].id = current_parent
                   THEN tree_nodes'[i] =
                          [tree_nodes[i] EXCEPT
                              !.text = tree_nodes[i].text \o <<" ">>
                                       \o Utterance']
                   ELSE tree_nodes'[i] = tree_nodes[i] ]_vars

\* A continuation has extended the second of two nodes.
C11_Witness ==
    /\ Ingested
    /\ last.reply.topic_changed = PyFalse
    /\ last.outcome = "appended"
    /\ Len(tree_nodes) = 2
    /\ current_parent = 1
    /\ tree_nodes[1].text = <<"a">>
    /\ tree_nodes[2].text = <<"a", " ", "b", " ">>

\* ---- C12 --------------------------------------------------------------------
\* C12: from every reachable state the Reset All handler leaves the session
\* state of session creation (no nodes, counter 0, pointer None, label None,
\* empty log), and a second reset leaves what the first one left.
C12_ResetRestoresInit ==
    /\ [](/\ reset_all(SessionState) = EmptySession
          /\ reset_all(reset_all(SessionState)) = reset_all(SessionState))
    /\ [][ last'.op = "reset"
             => /\ tree_nodes' = <<>>
                /\ node_counter' = 0
                /\ current_parent' = NoneId
                /\ current_topic_label' = NoneLabel
                /\ conversation_history' = <<>>
                /\ reset_all(SessionState') = SessionState' ]_vars

\* A session with two topics and a log has just been reset.
C12_Witness ==
    /\ last.op = "reset"
    /\ {0, 1} \subseteq retired
    /\ SessionState = EmptySession

\* ---- C13 --------------------------------------------------------------------
\* C13: the first non-empty utterance processed after a reset creates the
\* node with id 0 and parent_id None, whatever the classifier returns
\* (topic_changed true or false, or a failed call).
C13_AfterResetNodeZero ==
    [][ (Ingested' /\ last.op = "reset" /\ ~Malformed(last'.reply))
            => /\ Len(tree_nodes') = 1
               /\ tree_nodes'[1].id = 0
               /\ tree_nodes'[1].parent_id = NoneId ]_vars

\* ---- C14 --------------------------------------------------------------------
\* No utterance was produced, or it has no character other than white space.
IsBlank(t) == t = NoneTranscript \/ \A i \in 1..Len(t) : IsSpace(t[i])

\* C14: a run whose transcription failed or gave an empty or whitespace-only
\* text ends before the classifier is called, whatever the classifier would
\* have answered, and leaves nodes, counter, pointer, label and log unchanged.
C14_BlankIsRejected ==
    /\ [](\A w \in WhisperOutcomes, c \in ClassifierOutcomes :
             IsBlank(transcribe_audio(w))
                => process_recording(SessionState, AudioWav, w, c) =
                      [st |-> SessionState, outcome |-> "rejected",
                       prompt |-> NoPrompt])
    /\ [][ (/\ last'.op = "ingest"
            /\ last'.audio_data = AudioWav
            /\ IsBlank(Utterance'))
             => /\ SessionState' = SessionState
                /\ last'.outcome = "rejected" ]_vars

\* A whitespace-only transcript was rejected in a session that holds a topic.
C14_Witness ==
    /\ last.op = "ingest"
    /\ last.audio_data = AudioWav
    /\ last.whisper = <<" ">>
    /\ last.outcome = "rejected"
    /\ tree_nodes # <<>>
    /\ conversation_history # <<>>

\* ---- C15 --------------------------------------------------------------------
\* C15: a run whose decision is topic_changed = false while the active
\* pointer names no node changes no node, creates none, keeps counter,
\* pointer and label, raises nothing, and still appends the utterance to the
\* Conversation Log.
C15_LookupMissIsSilent ==
    [][ (/\ Ingested'
         /\ Decision(conversation_history, last'.reply).topic_changed = PyFalse
         /\ ~Resolves)
          => /\ tree_nodes' = tree_nodes
             /\ node_counter' = node_counter
             /\ current_parent' = current_parent
             /\ current_topic_label' = current_topic_label
             /\ last'.outcome = "appended"
             /\ conversation_history' =
                   Append(conversation_history, Utterance') ]_vars

\* Two utterances were logged while no node was active.
C15_Witness ==
    /\ Ingested
    /\ last.outcome = "appended"
    /\ current_parent = NoneId
    /\ tree_nodes = <<>>
    /\ conversation_history = << <<"a">>, <<"b", " ">> >>

\* ---- C16 --------------------------------------------------------------------
\* C16: while every classifier call fails, after k >= 1 non-empty utterances
\* since session start or reset the tree is the single node with id 0,
\* parent None, label "New Topic" and as text the k utterances joined by
\* single spaces, and that node is active.
C16_TotalFailureOneTopic ==
    accepted # <<>>
        => /\ tree_nodes = << NewNode(0, "New Topic", join(accepted), NoneId) >>
           /\ current_parent = 0
           /\ current_topic_label = "New Topic"

\* Three utterances went through failed classifier calls after a reset.
C16_Witness ==
    /\ Ingested
    /\ last.reply.failed
    /\ accepted = << <<"a">>, <<"b", " ">>, <<"a">> >>
    /\ tree_nodes[1].text = <<"a", " ", "b", " ", " ", "a">>
    /\ retired = {0}

\* ---- C17 --------------------------------------------------------------------
\* The last min(3, Len(log)) entries of a log, oldest first.
Window(log) ==
    LET n == Len(log)
        k == IF n < 3 THEN n ELSE 3
    IN  [i \in 1..k |-> log[n - k + i]]

\* C17: the context of the classifier call of a run is the last
\* min(3, len(log)) entries of the Conversation Log as it stood before the
\* run, oldest first and joined by spaces, together with the current topic
\* label as it stood before the run; the utterance of the run is not in it.
C17_ContextWindow ==
    [][ Ingested'
          => /\ last'.context = join(Window(conversation_history))
             /\ last'.current_topic = current_topic_label ]_vars

\* The fifth utterance of a session was classified with entries 2..4 as its
\* context, which differ from entries 1..3 and from entries 3..5.
C17_Witness ==
    /\ Ingested
    /\ last.outcome \in {"new_topic", "appended"}
    /\ Len(conversation_history) = 5
    /\ last.context = join(SubSeq(conversation_history, 2, 4))
    /\ last.context # join(SubSeq(conversation_history, 1, 3))
    /\ last.context # join(SubSeq(conversation_history, 3, 5))
    /\ last.current_topic = "A"

\* ---- C18 --------------------------------------------------------------------
\* C18: the active pointer is None, and then the tree has no node, or it is
\* the id of the node created last (id counter - 1), which is in the tree; a
\* pointer that is not None therefore always resolves.
C18_PointerIsNewestNode ==
    IF current_parent = NoneId
    THEN tree_nodes = <<>>
    ELSE /\ current_parent = node_counter - 1
         /\ tree_nodes # <<>>
         /\ tree_nodes[Len(tree_nodes)].id = current_parent
         /\ Resolves

\* The second topic of a session that follows a reset is active and has
\* just been continued.
C18_Witness ==
    /\ current_parent = 1
    /\ Len(tree_nodes) = 2
    /\ retired # {}
    /\ last.outcome = "appended"

\* ---- C19 --------------------------------------------------------------------
\* C19: the current topic label is None exactly when the active pointer is
\* None, and otherwise it is the label of the node the pointer names; id,
\* label and parent_id of a node never change while the node is in the tree.
C19_LabelFollowsPointer ==
    /\ [](/\ (current_topic_label = NoneLabel) <=> (current_parent = NoneId)
          /\ current_parent # NoneId
                => \E i \in 1..Len(tree_nodes) :
                      /\ tree_nodes[i].id = current_parent
                      /\ tree_nodes[i].label = current_topic_label)
    /\ [][ last'.op = "ingest"
             => \A i \in 1..Len(tree_nodes) :
                   /\ i <= Len(tree_nodes')
                   /\ tree_nodes'[i].id = tree_nodes[i].id
                   /\ tree_nodes'[i].label = tree_nodes[i].label
                   /\ tree_nodes'[i].parent_id = tree_nodes[i].parent_id ]_vars

\* ---- C20 --------------------------------------------------------------------
\* The texts of the nodes, in id order.
NodeTexts == [i \in 1..Len(tree_nodes) |-> tree_nodes[i].text]

IsPrefix(p, t) == Len(p) <= Len(t) /\ SubSeq(t, 1, Len(p)) = p

\* C20: in a session whose first non-empty utterance created a node, the
\* node texts joined in id order by single spaces equal the Conversation Log
\* entries joined by single spaces; a run only ever extends the text of a
\* node, it never shortens or rewrites it.
C20_NoUtteranceLost ==
    /\ [](first_run = "node"
             => join(NodeTexts) = join(conversation_history))
    /\ [][ last'.op = "ingest"
             => \A i \in 1..Len(tree_nodes) :
                   /\ i <= Len(tree_nodes')
                   /\ IsPrefix(tree_nodes[i].text, tree_nodes'[i].text) ]_vars

\* Three logged utterances are spread over two nodes, the second extended.
C20_Witness ==
    /\ first_run = "node"
    /\ Len(tree_nodes) = 2
    /\ Len(conversation_history) = 3
    /\ last.outcome = "appended"
    /\ tree_nodes[2].text = <<"b", " ", " ", "a">>

====
